---- MODULE Spec2Model ----
(***************************************************************************)
(* State-machine model of the web_scraper package.                         *)
(*                                                                         *)
(*   SpecSeq    the sequential executor, src/src/scraper.py WebScraper     *)
(*              (scrape_multiple_urls, scrape_url, _make_request) and      *)
(*              src/src/utils.py validate_url                              *)
(*   SpecAsync  the concurrent executor, src/src/scraper.py                *)
(*              AsyncWebScraper (scrape_multiple_async, _fetch_url)        *)
(*                                                                         *)
(* A URL is a sequence of one-character strings, so that urlparse is       *)
(* computed, not assumed. The delay is a whole number of time units and    *)
(* its random extra, uniform(0, delay * 0.5), a whole number of them.      *)
(***************************************************************************)
EXTENDS Integers, Sequences, FiniteSets, TLC

----------------------------------------------------------------------------
(* Bounds of the model *)

MaxUrls == 2
MaxRetries == 2
MaxConcurrent == 2
\* the log_request and start_session calls made on a ScrapingMonitor, and the
\* seconds on its clock
MaxCalls == 3
MaxClock == 1
\* the sampler: the latest time at which building a sample may raise, and the
\* samples appended in all (three more than the history holds)
MaxFailTime == 5
MaxAppends == 1003
\* a caller of the PerformanceMonitor: its start and stop calls, and the samples
\* appended while it makes them
MaxOps == 3
MaxSamples == 2
\* the long session: its log_request calls (the error-rate rule needs ten) and
\* the start_session calls around them
MaxAlertRecords == 11
MaxAlertSessions == 1
\* the session that is reported on: its log_request calls (six error texts and
\* one of them again)
MaxReportRecords == 7
\* the reachable URLs of the batch that holds one malformed URL
ScenarioGood == 5

----------------------------------------------------------------------------
(* URLs and the Validity Gate (utils.validate_url over urllib's urlparse) *)

UrlGood == << "h", ":", "/", "/", "b", "/", "p" >>
UrlNotAUrl == << "n", "o", "t", "-", "a", "-", "u", "r", "l" >>
UrlNoHost == << "h", ":", "/", "/" >>
UrlNoScheme == << "/", "/", "a" >>

UrlPool == { UrlGood, UrlNotAUrl, UrlNoHost, UrlNoScheme }

Alpha == { "a", "b", "h", "l", "n", "o", "p", "r", "t", "u" }
SchemeChars == Alpha \cup { "+", "-", "." }
NetlocDelims == { "/", "?", "#" }

\* str.find: the first position of character c in s at or after position from,
\* 0 when there is none (positions are 1-based).
FindFrom(s, cs, from) ==
    LET hits == { k \in from..Len(s) : s[k] \in cs }
    IN  IF hits = {} THEN 0 ELSE CHOOSE k \in hits : \A j \in hits : k <= j

\* urlsplit: a scheme is the text before the first ":" when that text is not
\* empty, starts with a letter and holds only scheme characters.
HasScheme(url) ==
    LET i == FindFrom(url, { ":" }, 1)
    IN  /\ i > 1
        /\ url[1] \in Alpha
        /\ \A k \in 1..(i - 1) : url[k] \in SchemeChars

UrlScheme(url) ==
    IF HasScheme(url) THEN SubSeq(url, 1, FindFrom(url, { ":" }, 1) - 1) ELSE << >>

AfterScheme(url) ==
    IF HasScheme(url) THEN SubSeq(url, FindFrom(url, { ":" }, 1) + 1, Len(url)) ELSE url

\* urlsplit: the netloc is what follows a leading "//" up to the next "/", "?"
\* or "#".
UrlNetloc(url) ==
    LET r == AfterScheme(url)
    IN  IF Len(r) >= 2 /\ r[1] = "/" /\ r[2] = "/"
        THEN LET d == FindFrom(r, NetlocDelims, 3)
             IN  IF d = 0 THEN SubSeq(r, 3, Len(r)) ELSE SubSeq(r, 3, d - 1)
        ELSE << >>

validate_url_SchemeOnly(url) == UrlScheme(url) # << >>

validate_url(url) == UrlScheme(url) # << >> /\ UrlNetloc(url) # << >>

----------------------------------------------------------------------------
(* Values shared by both executors *)

None == "None"
EmptyData == "{}"

\* dataclass ScrapingResult (the timestamp is left out: no claim reads it)
ScrapingResult(url, status_code, success, data, error_message) ==
    [ url |-> url, status_code |-> status_code, success |-> success,
      data |-> data, error_message |-> error_message ]

\* What the transport does with one request: it answers with a status, or it
\* raises. exc = "" means a response; otherwise exc is str(e) of what it raised.
HttpOk == 200
HttpNotFound == 404
RequestExceptionTexts == { "404 Client Error", "ConnectTimeout" }
OtherExceptionTexts == { "ValueError" }
TransportOutcomes ==
    { [ status |-> st, exc |-> "" ] : st \in { HttpOk, HttpNotFound } }
    \cup { [ status |-> 0, exc |-> "ConnectTimeout" ], [ status |-> 0, exc |-> "ValueError" ] }

\* Response.raise_for_status: HTTPError for a 4xx or 5xx status.
raise_for_status(status) ==
    IF status >= 400 /\ status < 600 THEN "404 Client Error" ELSE ""

\* What session.get followed by raise_for_status raises ("" when nothing).
RequestError(t) == IF t.exc # "" THEN t.exc ELSE raise_for_status(t.status)

----------------------------------------------------------------------------
(* The sequential executor: WebScraper *)

VARIABLES
    urls,           \* the list handed to scrape_multiple_urls
    delay,          \* self.delay
    max_retries,    \* self.max_retries
    pc,             \* where scrape_multiple_urls stands
    idx,            \* position of the loop of scrape_multiple_urls (1-based)
    attempt,        \* the loop variable of _make_request
    status_code,    \* scrape_url's local status_code
    results,        \* the list scrape_multiple_urls builds
    returned,       \* what scrape_multiple_urls returned
    stats,          \* self.stats
    trace,          \* the sleeps and requests of the current scrape_url call, in order
                    \* (a backoff sleep with its seconds; the length of a delay
                    \* sleep is what it adds to stats.total_delay_time)
    delay_at_entry  \* stats.total_delay_time when that call began

seqVars == << urls, delay, max_retries, pc, idx, attempt,
              status_code, results, returned, stats, trace, delay_at_entry >>

VARIABLES
    max_concurrent, \* AsyncWebScraper.max_concurrent
    sem,            \* the value of self.semaphore: the permits not handed out
    waiters,        \* the semaphore's queue of waiting units, oldest first
    apc,            \* where scrape_multiple_async stands
    unit,           \* unit[i]: where the _fetch_url task of urls[i] stands
    slots,          \* slots[i]: what the task of urls[i] returned to gather
    areturned,      \* what scrape_multiple_async returned
    requests,       \* requests[i]: the session.get calls made for urls[i]
    sleeps,         \* sleeps[i]: the asyncio.sleep calls of unit i, in order
    unit_error,     \* unit_error[i]: str(e) of what was raised inside unit i, "" if nothing
    finished        \* the units in the order in which they finished

asyncVars == << max_concurrent, sem, waiters, apc, unit, slots, areturned,
                requests, sleeps, unit_error, finished >>

VARIABLES
    now,              \* the clock that datetime.now() and time.time() read, in seconds
    metrics,          \* ScrapingMonitor.metrics, a ScrapingMetrics
    alerts,           \* ScrapingMonitor.alerts
    progress_tracker, \* ScrapingMonitor.progress_tracker: << >> for None, else << tracker >>
    monitoring,       \* PerformanceMonitor.monitoring
    thread,           \* PerformanceMonitor.thread: 0 for None, else the number of the
                      \* thread started last
    workers,          \* workers[k]: where the k-th thread started stands in _monitor_loop
    metrics_history,  \* PerformanceMonitor.metrics_history
    appended,         \* every sample handed to metrics_history.append, in order
    snap,             \* what the last call of ScrapingMetrics.to_dict returned
    snap_fresh,       \* no log_request, start_session or end_session ran since then
    logged,           \* the log_request calls made so far
    sessions,         \* the start_session calls made so far
    caller,           \* the thread that calls start_monitoring and stop_monitoring:
                      \* idle, or inside stop_monitoring's join until `deadline`
    ops               \* the start_monitoring and stop_monitoring calls made on the
                      \* PerformanceMonitor used on its own, in order

monVars == << now, metrics, alerts, progress_tracker, monitoring, thread, workers,
              metrics_history, appended, snap, snap_fresh, logged, sessions,
              caller, ops >>

vars == << seqVars, asyncVars, monVars >>

\* no AsyncWebScraper is at work
AsyncIdle ==
    /\ max_concurrent = 1
    /\ sem = 1
    /\ waiters = << >>
    /\ apc = "idle"
    /\ unit = << >>
    /\ slots = << >>
    /\ areturned = << >>
    /\ requests = << >>
    /\ sleeps = << >>
    /\ unit_error = << >>
    /\ finished = << >>

----------------------------------------------------------------------------
(* Monitoring: the values of ScrapingMetrics *)

RECURSIVE GCD(_, _)
GCD(a, b) == IF b = 0 THEN a ELSE GCD(b, a % b)

\* the float n / d (0 <= n, 0 < d), kept exactly as a fraction in lowest terms
Div(n, d) == LET g == GCD(n, d) IN [ num |-> n \div g, den |-> d \div g ]

\* the float 0.0
Zero == [ num |-> 0, den |-> 1 ]

\* a dict is the sequence of its items in insertion order
DictHas(d, k) == \E i \in 1..Len(d) : d[i].key = k

\* d.get(k, 0)
DictGet(d, k) ==
    IF DictHas(d, k) THEN d[CHOOSE i \in 1..Len(d) : d[i].key = k].val ELSE 0

\* d[k] = v
DictSet(d, k, v) ==
    IF DictHas(d, k)
    THEN [ i \in 1..Len(d) |-> IF d[i].key = k THEN [ key |-> k, val |-> v ] ELSE d[i] ]
    ELSE Append(d, [ key |-> k, val |-> v ])

\* d[k] = d.get(k, 0) + 1
DictCount(d, k) == DictSet(d, k, DictGet(d, k) + 1)

RECURSIVE DictSum(_)
DictSum(d) == IF d = << >> THEN 0 ELSE d[1].val + DictSum(Tail(d))

\* ScrapingMetrics(): the dataclass's defaults, start_time from datetime.now;
\* end_time is << >> for None and << t >> once set
ScrapingMetrics(t) ==
    [ start_time |-> t, end_time |-> << >>, total_urls |-> 0,
      successful_requests |-> 0, failed_requests |-> 0,
      total_bytes_downloaded |-> 0, total_processing_time |-> 0,
      average_response_time |-> Zero, requests_per_second |-> Zero,
      errors_by_type |-> << >>, status_codes |-> << >>, domain_stats |-> << >> ]

duration_Live(m, t) == t - m.start_time

\* ScrapingMetrics.duration, in seconds, read at time t
duration(m, t) == (IF m.end_time # << >> THEN m.end_time[1] ELSE t) - m.start_time

success_rate_OfTotalUrls(m) ==
    IF m.total_urls > 0 THEN Div(100 * m.successful_requests, m.total_urls) ELSE Zero

\* ScrapingMetrics.success_rate
success_rate(m) ==
    LET total == m.successful_requests + m.failed_requests
    IN  IF total > 0 THEN Div(100 * m.successful_requests, total) ELSE Zero

\* datetime.isoformat
isoformat(t) == << "iso", t >>

\* ScrapingMetrics.to_dict at time t. The three histograms of the returned
\* dict are the ScrapingMetrics' own dict objects, not copies: shared says so,
\* and the value's histograms are then read from the ScrapingMetrics (to_dict_view).
to_dict(m, t) ==
    [ start_time |-> isoformat(m.start_time),
      end_time |-> IF m.end_time # << >> THEN isoformat(m.end_time[1]) ELSE << >>,
      duration_seconds |-> duration(m, t),
      total_urls |-> m.total_urls,
      successful_requests |-> m.successful_requests,
      failed_requests |-> m.failed_requests,
      success_rate |-> success_rate(m),
      total_bytes_downloaded |-> m.total_bytes_downloaded,
      total_processing_time |-> m.total_processing_time,
      average_response_time |-> m.average_response_time,
      requests_per_second |-> m.requests_per_second,
      shared |-> TRUE,
      errors_by_type |-> << >>, status_codes |-> << >>, domain_stats |-> << >> ]

\* what a holder of the dict d reads in it while m is the ScrapingMetrics at work
to_dict_view(d, m) ==
    IF d.shared
    THEN [ d EXCEPT !.shared = FALSE,
                    !.errors_by_type = m.errors_by_type,
                    !.status_codes = m.status_codes,
                    !.domain_stats = m.domain_stats ]
    ELSE d

\* the ScrapingMetrics m is replaced: the dict objects it holds are never
\* written again, and a to_dict value that shares them keeps their last content
Detach(d, m) == to_dict_view(d, m)

----------------------------------------------------------------------------
(* Monitoring: PerformanceMonitor *)

\* PerformanceMonitor's default interval, in seconds
Interval == 5

\* the maxlen of metrics_history
HistoryCapacity == 1000

\* the timeout of stop_monitoring's join, in seconds
JoinTimeout == 1

\* what psutil reads at time t
memory_percent(t) == IF t % 3 = 0 THEN 50 ELSE IF t % 3 = 1 THEN 80 ELSE 90

\* the dict _monitor_loop builds at time t
Sample(t) == [ timestamp |-> isoformat(t), memory_percent |-> memory_percent(t) ]

\* whether building the sample at time t may raise: it may, up to MaxFailTime
PsutilRaises(t) == IF t <= MaxFailTime THEN BOOLEAN ELSE { FALSE }

DequeAppend_DropNewest(buf, x) ==
    IF Len(buf) >= HistoryCapacity THEN buf ELSE Append(buf, x)

\* deque(maxlen=HistoryCapacity).append: when full, the oldest item goes
DequeAppend(buf, x) ==
    IF Len(buf) >= HistoryCapacity THEN Append(Tail(buf), x) ELSE Append(buf, x)

\* the caller is not inside a call
CallerIdle == [ pc |-> "idle", deadline |-> 0 ]

start_monitoring_NoGuard ==
    /\ monitoring' = TRUE
    /\ workers' = Append(workers, [ pc |-> "loop", wake_at |-> 0 ])
    /\ thread' = Len(workers) + 1

\* start_monitoring
start_monitoring ==
    IF monitoring
    THEN UNCHANGED << monitoring, thread, workers >>
    ELSE /\ monitoring' = TRUE
         /\ workers' = Append(workers, [ pc |-> "loop", wake_at |-> 0 ])
         /\ thread' = Len(workers) + 1

\* stop_monitoring: the flag is cleared; join(timeout=1) then waits for the
\* thread or for one second and changes nothing
stop_monitoring ==
    /\ monitoring' = FALSE
    /\ UNCHANGED << thread, workers >>

RECURSIVE SumMemory(_)
SumMemory(h) == IF h = << >> THEN 0 ELSE h[1].memory_percent + SumMemory(Tail(h))

LastN_All(h, n) == h

\* the last n items of the sequence h (all of it when it is shorter)
LastN(h, n) == IF Len(h) <= n THEN h ELSE SubSeq(h, Len(h) - n + 1, Len(h))

RECURSIVE Pow10(_)
Pow10(n) == IF n = 0 THEN 1 ELSE 10 * Pow10(n - 1)

\* the float x rounded to `digits` decimals, as a count of 10^-digits (round
\* and the f format; a tie goes up here, and no value of this model is a tie)
Rounded(x, digits) == (2 * x.num * Pow10(digits) + x.den) \div (2 * x.den)

\* PerformanceMonitor.get_current_stats: << >> for the empty dict
perf_stats(h) ==
    IF h = << >> THEN << >>
    ELSE LET recent == LastN(h, 10)
         IN  << [ avg_memory_percent |->
                      Div(Rounded(Div(SumMemory(recent), Len(recent)), 2), 100),
                  measurements_count |-> Len(recent) ] >>

----------------------------------------------------------------------------
(* Monitoring: ProgressTracker *)

\* ProgressTracker(total_items), made at time t
ProgressTracker(total_items, t) ==
    [ total_items |-> total_items, current_item |-> 0, start_time |-> t,
      last_update |-> 0, completed_items |-> << >>, failed_items |-> << >> ]

\* time.time() when the clock reads t
time_time(t) == 1700000000 + t

\* ProgressTracker.update(1, item_info) at time t
progress_update(p, item_info, t) ==
    LET stepped == [ p EXCEPT !.current_item = @ + 1 ]
        listed == IF item_info.success
                  THEN [ stepped EXCEPT !.completed_items = Append(@, item_info) ]
                  ELSE [ stepped EXCEPT !.failed_items = Append(@, item_info) ]
    IN  IF time_time(t) - p.last_update >= 1
        THEN [ listed EXCEPT !.last_update = time_time(t) ]
        ELSE listed

progress_finish_KeepAhead(p) ==
    IF p.current_item > p.total_items THEN p ELSE [ p EXCEPT !.current_item = p.total_items ]

\* ProgressTracker.finish
progress_finish(p) == [ p EXCEPT !.current_item = p.total_items ]

----------------------------------------------------------------------------
(* Monitoring: ScrapingMonitor *)

error_rate_threshold == 20
response_time_threshold == 10
memory_threshold == 80

\* the completions _check_alerts waits for before it looks at the error rate
MinRequestsForErrorRate == 10

\* ScrapingMonitor(): the state after construction, at time 0
MonitorConstructed ==
    /\ now = 0
    /\ metrics = ScrapingMetrics(0)
    /\ alerts = << >>
    /\ progress_tracker = << >>
    /\ monitoring = FALSE
    /\ thread = 0
    /\ workers = << >>
    /\ metrics_history = << >>
    /\ appended = << >>
    /\ snap = << >>
    /\ snap_fresh = FALSE
    /\ logged = 0
    /\ sessions = 0
    /\ caller = CallerIdle
    /\ ops = << >>

DelayChoices == { 0, 2 }

Ev(kind, secs, res) == [ kind |-> kind, secs |-> secs, res |-> res ]

RECURSIVE Pow2(_)
Pow2(n) == IF n = 0 THEN 1 ELSE 2 * Pow2(n - 1)

BackoffDoubled(a) == Pow2(a + 1)

\* time.sleep(2 ** attempt)
Backoff(a) == Pow2(a)

\* except requests.exceptions.RequestException
IsRequestException(exc) == exc \in RequestExceptionTexts

IsLastAttemptEarly(a) == a >= max_retries - 1

\* if attempt == self.max_retries
IsLastAttempt(a) == a = max_retries

FailureResultGeneric(url, exc) == ScrapingResult(url, 0, FALSE, EmptyData, "Request failed")

\* the result scrape_url builds in its except clause
FailureResult(url, exc) == ScrapingResult(url, 0, FALSE, EmptyData, exc)

ExtractResultKeepsStatus(url, sc, data, raised) ==
    IF raised = "" THEN ScrapingResult(url, sc, TRUE, data, None)
    ELSE ScrapingResult(url, sc, FALSE, EmptyData, raised)

\* scrape_url from the extractor's call to its return: the extractor's data in a
\* success result, or what the extractor raised in the except clause's result
ExtractResult(url, sc, data, raised) ==
    IF raised = "" THEN ScrapingResult(url, sc, TRUE, data, None)
    ELSE FailureResult(url, raised)

CollectFirst(rs, r) == << r >> \o rs

\* results.append(result)
Collect(rs, r) == Append(rs, r)

InvalidResultUnnamed(url) == ScrapingResult(url, 0, FALSE, EmptyData, None)

\* the result scrape_url builds for a URL that does not validate
InvalidResult(url) == ScrapingResult(url, 0, FALSE, EmptyData, "Invalid URL")

InitSeq ==
    /\ urls \in UNION { [ 1..n -> UrlPool ] : n \in 0..MaxUrls }
    /\ delay \in DelayChoices
    /\ max_retries \in 0..MaxRetries
    /\ pc = "loop"
    /\ idx = 1
    /\ attempt = 0
    /\ status_code = 0
    /\ results = << >>
    /\ returned = << >>
    /\ stats = [ requests_made |-> 0, successful_requests |-> 0,
                 failed_requests |-> 0, total_delay_time |-> 0 ]
    /\ trace = << >>
    /\ delay_at_entry = 0
    /\ AsyncIdle
    /\ MonitorConstructed

\* scrape_url, the branch taken when validate_url fails
ScrapeInvalid ==
    /\ pc = "loop"
    /\ idx <= Len(urls)
    /\ ~validate_url(urls[idx])
    /\ results' = Collect(results, InvalidResult(urls[idx]))
    /\ idx' = idx + 1
    /\ trace' = << >>
    /\ delay_at_entry' = stats.total_delay_time
    /\ UNCHANGED << urls, delay, max_retries, pc, attempt,
                    status_code, returned, stats, asyncVars, monVars >>

\* scrape_url for a URL that validates, up to the call of _make_request
ScrapeBegin ==
    /\ pc = "loop"
    /\ idx <= Len(urls)
    /\ validate_url(urls[idx])
    /\ pc' = "request"
    /\ attempt' = 0
    /\ trace' = << >>
    /\ delay_at_entry' = stats.total_delay_time
    /\ UNCHANGED << urls, delay, max_retries, idx,
                    status_code, results, returned, stats, asyncVars, monVars >>

stats_success_rate_OfAllEnded(st) ==
    Div(100 * st.successful_requests,
        IF st.successful_requests + st.failed_requests > 1
        THEN st.successful_requests + st.failed_requests ELSE 1)

\* get_stats()['success_rate']: successful_requests / max(1, requests_made) * 100
stats_success_rate(st) ==
    Div(100 * st.successful_requests, IF st.requests_made > 1 THEN st.requests_made ELSE 1)

AfterResponse_NextPass == "request"

\* where scrape_url stands once a request has succeeded: return response
\* leaves the loop of _make_request, the extraction comes next
AfterResponse == "extract"

\* One pass of the loop of _make_request: the delay, the request, and what
\* follows the request's failure, up to scrape_url's except clause.
\* The pass when random.uniform gives `jitter` and the transport does t.
AttemptWith(jitter, t) ==
    /\ pc = "request"
    /\   LET delay_time == delay + jitter
             slept == IF delay > 0 THEN << Ev("delay", 0, "") >> ELSE << >>
             charged == IF delay > 0 THEN stats.total_delay_time + delay_time
                        ELSE stats.total_delay_time
             exc == RequestError(t)
             asked == slept \o << Ev("request", 0, IF exc = "" THEN "ok" ELSE exc) >>
         IN  IF exc = ""
             THEN /\ stats' = [ stats EXCEPT !.total_delay_time = charged,
                                             !.requests_made = @ + 1,
                                             !.successful_requests = @ + 1 ]
                  /\ trace' = trace \o asked
                  /\ status_code' = t.status
                  /\ pc' = AfterResponse
                  /\ UNCHANGED << attempt, idx, results >>
             ELSE IF IsRequestException(exc) /\ ~IsLastAttempt(attempt)
             THEN /\ stats' = [ stats EXCEPT !.total_delay_time = charged ]
                  /\ trace' = trace \o asked \o << Ev("backoff", Backoff(attempt), "") >>
                  /\ attempt' = attempt + 1
                  /\ UNCHANGED << pc, idx, results, status_code >>
             ELSE /\ stats' = [ stats EXCEPT !.total_delay_time = charged,
                                             !.failed_requests =
                                                 IF IsRequestException(exc) THEN @ + 1 ELSE @ ]
                  /\ trace' = trace \o asked
                  /\ results' = Collect(results, FailureResult(urls[idx], exc))
                  /\ idx' = idx + 1
                  /\ pc' = "loop"
                  /\ UNCHANGED << attempt, status_code >>
    /\ UNCHANGED << urls, delay, max_retries, returned, delay_at_entry, asyncVars, monVars >>

\* a pass of the loop of _make_request
Attempt == \E jitter \in 0..(delay \div 2), t \in TransportOutcomes : AttemptWith(jitter, t)

\* scrape_url after the response: parse, extract (with self.custom_extractor if
\* one is set, else with _default_extract: either returns data or raises), build
\* the result
ExtractWith(raised) ==
    /\ pc = "extract"
    /\ results' = Collect(results,
                      ExtractResult(urls[idx], status_code, "extracted data", raised))
    /\ idx' = idx + 1
    /\ pc' = "loop"
    /\ UNCHANGED << urls, delay, max_retries, attempt,
                    status_code, returned, stats, trace, delay_at_entry, asyncVars, monVars >>

\* the extraction of a fetched page, the extractor returning or raising
Extract == \E raised \in { "", "extractor error" } : ExtractWith(raised)

\* scrape_multiple_urls: the loop is over, return results
Return ==
    /\ pc = "loop"
    /\ idx > Len(urls)
    /\ returned' = results
    /\ pc' = "done"
    /\ UNCHANGED << urls, delay, max_retries, idx, attempt,
                    status_code, results, stats, trace, delay_at_entry, asyncVars, monVars >>

NextSeq == ScrapeInvalid \/ ScrapeBegin \/ Attempt \/ Extract \/ Return

SpecSeq == InitSeq /\ [][NextSeq]_vars

\* The batch of reachable URLs with "not-a-url" put in at position k
ScenarioUrls(k) ==
    [ i \in 1..(ScenarioGood + 1) |-> IF i = k THEN UrlNotAUrl ELSE UrlGood ]

\* WebScraper(delay=0, max_retries=0) handed such a batch
InitScenario ==
    /\ urls \in { ScenarioUrls(k) : k \in 1..(ScenarioGood + 1) }
    /\ delay = 0
    /\ max_retries = 0
    /\ pc = "loop"
    /\ idx = 1
    /\ attempt = 0
    /\ status_code = 0
    /\ results = << >>
    /\ returned = << >>
    /\ stats = [ requests_made |-> 0, successful_requests |-> 0,
                 failed_requests |-> 0, total_delay_time |-> 0 ]
    /\ trace = << >>
    /\ delay_at_entry = 0
    /\ AsyncIdle
    /\ MonitorConstructed

\* a pass of _make_request for a reachable URL: the server answers 200
AttemptReachable == AttemptWith(0, [ status |-> HttpOk, exc |-> "" ])

\* the extraction of a reachable page: the extractor returns
ExtractClean == ExtractWith("")

NextScenario == ScrapeInvalid \/ ScrapeBegin \/ AttemptReachable \/ ExtractClean \/ Return

SpecScenario == InitScenario /\ [][NextScenario]_vars

----------------------------------------------------------------------------
(* The concurrent executor: AsyncWebScraper *)

NoResult == [ url |-> << >>, status_code |-> 0, success |-> FALSE,
              data |-> "no result", error_message |-> None ]

Units == 1..Len(urls)

\* the units between the permit's acquisition and its release
Holders == { i \in DOMAIN unit : unit[i] \in { "delay", "request" } }

InitAsync ==
    /\ urls \in UNION { [ 1..n -> UrlPool ] : n \in 0..MaxUrls }
    /\ delay \in DelayChoices
    /\ max_retries = 0
    /\ pc = "idle"
    /\ idx = 1
    /\ attempt = 0
    /\ status_code = 0
    /\ results = << >>
    /\ returned = << >>
    /\ stats = [ requests_made |-> 0, successful_requests |-> 0,
                 failed_requests |-> 0, total_delay_time |-> 0 ]
    /\ trace = << >>
    /\ delay_at_entry = 0
    /\ max_concurrent \in 1..MaxConcurrent
    /\ sem = max_concurrent
    /\ waiters = << >>
    /\ apc = "idle"
    /\ unit = << >>
    /\ slots = << >>
    /\ areturned = << >>
    /\ requests = << >>
    /\ sleeps = << >>
    /\ unit_error = << >>
    /\ finished = << >>
    /\ MonitorConstructed

SemFreeAlways(value, queue) == TRUE

\* Semaphore.acquire takes a permit at once when one is left and nobody waits
SemFree(value, queue) == value > 0 /\ queue = << >>

FetchResultKeepsStatus(url, t, parse_error) ==
    IF t.exc # "" THEN ScrapingResult(url, 0, FALSE, EmptyData, t.exc)
    ELSE IF parse_error # "" THEN ScrapingResult(url, t.status, FALSE, EmptyData, parse_error)
    ELSE ScrapingResult(url, t.status, TRUE, "basic data", None)

\* the result _fetch_url returns: a response (whatever its status) that parses
\* gives a success carrying its status; anything raised gives a failure
FetchResult(url, t, parse_error) ==
    IF t.exc # "" THEN ScrapingResult(url, 0, FALSE, EmptyData, t.exc)
    ELSE IF parse_error # "" THEN ScrapingResult(url, 0, FALSE, EmptyData, parse_error)
    ELSE ScrapingResult(url, t.status, TRUE, "basic data", None)

AfterFetchRetry(r) == IF r.success THEN "done" ELSE "delay"

\* where a unit stands once its request has ended: _fetch_url returns its
\* result on both paths, it has no loop
AfterFetch(r) == "done"

GatherByCompletion(done_slots, order) == [ k \in 1..Len(order) |-> done_slots[order[k]] ]

\* asyncio.gather: the tasks' results in the order the tasks were given,
\* whatever the order in which they finished
GatherInOrder(done_slots, order) == done_slots

\* scrape_multiple_async is called: one task per URL is handed to gather
Gather ==
    /\ apc = "idle"
    /\ apc' = "gather"
    /\ unit' = [ i \in Units |-> "created" ]
    /\ slots' = [ i \in Units |-> NoResult ]
    /\ requests' = [ i \in Units |-> 0 ]
    /\ sleeps' = [ i \in Units |-> << >> ]
    /\ unit_error' = [ i \in Units |-> "" ]
    /\ UNCHANGED << monVars, seqVars, max_concurrent, sem, waiters, areturned, finished >>

\* The first step of a task, in the order of creation: async with
\* self.semaphore takes a permit or queues the task.
Acquire(i) ==
    /\ apc = "gather"
    /\ unit[i] = "created"
    /\ \A j \in Units : j < i => unit[j] # "created"
    /\ IF SemFree(sem, waiters)
       THEN /\ sem' = sem - 1
            /\ unit' = [ unit EXCEPT ![i] = "delay" ]
            /\ UNCHANGED waiters
       ELSE /\ waiters' = Append(waiters, i)
            /\ unit' = [ unit EXCEPT ![i] = "waiting" ]
            /\ UNCHANGED sem
    /\ UNCHANGED << monVars, seqVars, max_concurrent, apc, slots, areturned, requests,
                    sleeps, unit_error, finished >>

fetch_delay_Jittered == delay + delay \div 2

\* the seconds _fetch_url sleeps before its request: self.delay
fetch_delay == delay

\* await asyncio.sleep(self.delay) is over: session.get is called
Sleep(i) ==
    /\ apc = "gather"
    /\ unit[i] = "delay"
    /\ sleeps' = [ sleeps EXCEPT ![i] = Append(@, fetch_delay) ]
    /\ requests' = [ requests EXCEPT ![i] = @ + 1 ]
    /\ unit' = [ unit EXCEPT ![i] = "request" ]
    /\ UNCHANGED << monVars, seqVars, max_concurrent, sem, waiters, apc, slots, areturned,
                    unit_error, finished >>

\* The request of unit i ends, by a response or by an exception (of the
\* transport, or of reading and parsing the response); the task returns its
\* result and leaves async with, which releases the permit: to the oldest
\* waiting unit if there is one.
Respond(i) ==
    /\ apc = "gather"
    /\ unit[i] = "request"
    /\ \E t \in TransportOutcomes, parse_error \in { "", "decode error" } :
          /\ t.exc # "" => parse_error = ""
          /\ slots' = [ slots EXCEPT ![i] = FetchResult(urls[i], t, parse_error) ]
          /\ unit_error' = [ unit_error EXCEPT ![i] = IF t.exc # "" THEN t.exc ELSE parse_error ]
          /\ IF AfterFetch(FetchResult(urls[i], t, parse_error)) = "done"
             THEN /\ finished' = Append(finished, i)
                  /\ IF waiters # << >>
                     THEN /\ unit' = [ unit EXCEPT ![i] = "done", ![Head(waiters)] = "delay" ]
                          /\ waiters' = Tail(waiters)
                          /\ UNCHANGED sem
                     ELSE /\ unit' = [ unit EXCEPT ![i] = "done" ]
                          /\ sem' = sem + 1
                          /\ UNCHANGED waiters
             ELSE /\ unit' = [ unit EXCEPT ![i] = "delay" ]
                  /\ UNCHANGED << sem, waiters, finished >>
    /\ UNCHANGED << monVars, seqVars, max_concurrent, apc, areturned, requests, sleeps >>

\* every task is done: gather hands the results to scrape_multiple_async, which
\* returns them
GatherReturn ==
    /\ apc = "gather"
    /\ \A i \in Units : unit[i] = "done"
    /\ areturned' = GatherInOrder(slots, finished)
    /\ apc' = "done"
    /\ UNCHANGED << monVars, seqVars, max_concurrent, sem, waiters, unit, slots, requests,
                    sleeps, unit_error, finished >>

NextAsync ==
    \/ Gather
    \/ \E i \in Units : Acquire(i)
    \/ \E i \in Units : Sleep(i)
    \/ \E i \in Units : Respond(i)
    \/ GatherReturn

SpecAsync == InitAsync /\ [][NextAsync]_vars

\* AsyncWebScraper(max_concurrent, delay): asyncio.Semaphore takes any value
\* from 0 on, and __init__ checks none
InitPool ==
    /\ urls \in UNION { [ 1..n -> UrlPool ] : n \in 0..MaxUrls }
    /\ delay \in DelayChoices
    /\ max_retries = 0
    /\ pc = "idle"
    /\ idx = 1
    /\ attempt = 0
    /\ status_code = 0
    /\ results = << >>
    /\ returned = << >>
    /\ stats = [ requests_made |-> 0, successful_requests |-> 0,
                 failed_requests |-> 0, total_delay_time |-> 0 ]
    /\ trace = << >>
    /\ delay_at_entry = 0
    /\ max_concurrent \in 0..MaxConcurrent
    /\ sem = max_concurrent
    /\ waiters = << >>
    /\ apc = "idle"
    /\ unit = << >>
    /\ slots = << >>
    /\ areturned = << >>
    /\ requests = << >>
    /\ sleeps = << >>
    /\ unit_error = << >>
    /\ finished = << >>
    /\ MonitorConstructed

SpecPool == InitPool /\ [][NextAsync]_vars

----------------------------------------------------------------------------
(* Monitoring: the operations of ScrapingMonitor *)

\* The arguments of a log_request call. An absent (None) status_code,
\* response_time, error or content_size is written 0 or "": the code only
\* tests the truth of these arguments, and None, 0 and "" test alike.
Request(url, success, sc, response_time, error, content_size) ==
    [ url |-> url, success |-> success, status_code |-> sc,
      response_time |-> response_time, error |-> error,
      content_size |-> content_size ]

RecordInputs ==
    { Request(UrlGood, TRUE, HttpOk, 12, "", 5),
      Request(UrlGood, FALSE, HttpNotFound, 4, "404 Client Error", 0),
      Request(UrlNotAUrl, FALSE, 0, 0, "", 0) }

\* what start_session is called with: None (0) or the length of a URL list
TotalUrlsChoices == { 0, 1 }

count_error_Always(hist, error) == DictCount(hist, error)

\* log_request, failure branch: if error: errors_by_type[error] += 1
count_error(hist, error) == IF error # "" THEN DictCount(hist, error) ELSE hist

\* log_request, the part that updates self.metrics
log_request_metrics(m, r) ==
    LET counted ==
            IF r.success
            THEN [ m EXCEPT !.successful_requests = @ + 1 ]
            ELSE [ m EXCEPT !.failed_requests = @ + 1,
                            !.errors_by_type = count_error(@, r.error) ]
        coded ==
            IF r.status_code # 0
            THEN [ counted EXCEPT !.status_codes = DictCount(@, r.status_code) ]
            ELSE counted
        timed ==
            IF r.response_time # 0
            THEN LET total_time == coded.total_processing_time + r.response_time
                     total_requests == coded.successful_requests + coded.failed_requests
                 IN  [ coded EXCEPT !.total_processing_time = total_time,
                                    !.average_response_time = Div(total_time, total_requests) ]
            ELSE coded
        sized ==
            IF r.content_size # 0
            THEN [ timed EXCEPT !.total_bytes_downloaded = @ + r.content_size ]
            ELSE timed
    IN  [ sized EXCEPT !.domain_stats = DictCount(@, UrlNetloc(r.url)) ]

\* the dict log_request hands to ProgressTracker.update
item_info(r) ==
    [ url |-> r.url, success |-> r.success, status_code |-> r.status_code,
      response_time |-> r.response_time ]

\* an alert's text: its wording and the number formatted into it
Alert(wording, shown) == [ wording |-> wording, shown |-> shown ]

AppendNew_ByWording(al, alert) ==
    IF \E i \in 1..Len(al) : al[i].wording = alert.wording THEN al ELSE Append(al, alert)

\* if alert not in self.alerts: self.alerts.append(alert)
AppendNew(al, alert) ==
    IF \E i \in 1..Len(al) : al[i] = alert THEN al ELSE Append(al, alert)

error_rate_breach_AtThreshold(m) ==
    LET total_requests == m.successful_requests + m.failed_requests
    IN  /\ total_requests >= MinRequestsForErrorRate
        /\ 100 * m.failed_requests >= error_rate_threshold * total_requests

\* _check_alerts: total_requests >= 10 and error_rate > self.error_rate_threshold
error_rate_breach(m) ==
    LET total_requests == m.successful_requests + m.failed_requests
    IN  /\ total_requests >= MinRequestsForErrorRate
        /\ 100 * m.failed_requests > error_rate_threshold * total_requests

slow_response_breach_AfterTen(m) ==
    /\ m.successful_requests + m.failed_requests >= MinRequestsForErrorRate
    /\ m.average_response_time.num > response_time_threshold * m.average_response_time.den

\* _check_alerts: average_response_time > self.response_time_threshold
slow_response_breach(m) ==
    m.average_response_time.num > response_time_threshold * m.average_response_time.den

memory_breach_AtThreshold(h) ==
    LET system_stats == perf_stats(h)
    IN  /\ system_stats # << >>
        /\ system_stats[1].avg_memory_percent.num
               >= memory_threshold * system_stats[1].avg_memory_percent.den

\* _check_alerts: system_stats.get('avg_memory_percent', 0) > self.memory_threshold
memory_breach(h) ==
    LET system_stats == perf_stats(h)
    IN  /\ system_stats # << >>
        /\ system_stats[1].avg_memory_percent.num
               > memory_threshold * system_stats[1].avg_memory_percent.den

\* the texts of the three alerts, for the metrics m and the history h
error_rate_alert(m) ==
    Alert("High error rate",
          Rounded(Div(100 * m.failed_requests, m.successful_requests + m.failed_requests), 1))
slow_response_alert(m) == Alert("Slow response times", Rounded(m.average_response_time, 2))
memory_alert(h) == Alert("High memory usage", Rounded(perf_stats(h)[1].avg_memory_percent, 1))

\* _check_alerts: the alerts list it leaves
check_alerts(m, h, al) ==
    LET after_rate == IF error_rate_breach(m)
                      THEN AppendNew(al, error_rate_alert(m)) ELSE al
        after_time == IF slow_response_breach(m)
                      THEN AppendNew(after_rate, slow_response_alert(m)) ELSE after_rate
    IN  IF memory_breach(h)
        THEN AppendNew(after_time, memory_alert(h)) ELSE after_time

end_session_metrics_NoRate(m, t) == [ m EXCEPT !.end_time = << t >> ]

\* end_session at time t, the part that updates self.metrics
end_session_metrics(m, t) ==
    LET ended == [ m EXCEPT !.end_time = << t >> ]
        total_requests == m.successful_requests + m.failed_requests
    IN  IF total_requests > 0 /\ duration(ended, t) > 0
        THEN [ ended EXCEPT !.requests_per_second = Div(total_requests, duration(ended, t)) ]
        ELSE ended

\* start_session(total_urls): new metrics, a new tracker when total_urls is
\* truthy, the sampler started; self.alerts is not assigned
Session(total_urls) ==
    /\ metrics' = [ ScrapingMetrics(now) EXCEPT !.total_urls = total_urls ]
    /\ progress_tracker' = IF total_urls # 0
                           THEN << ProgressTracker(total_urls, now) >>
                           ELSE progress_tracker
    /\ start_monitoring
    /\ snap' = IF snap # << >> THEN << Detach(snap[1], metrics) >> ELSE snap
    /\ snap_fresh' = FALSE
    /\ sessions' = sessions + 1
    /\ UNCHANGED << now, alerts, metrics_history, appended, logged, caller, ops, seqVars, asyncVars >>

\* a start_session call
StartSession ==
    /\ logged + sessions < MaxCalls
    /\ \E total_urls \in TotalUrlsChoices : Session(total_urls)

\* log_request(url, success, status_code, response_time, error, content_size)
\* with the arguments r
Record(r) ==
    /\ LET updated == log_request_metrics(metrics, r)
       IN  /\ metrics' = updated
           /\ progress_tracker' =
                  IF progress_tracker # << >>
                  THEN << progress_update(progress_tracker[1], item_info(r), now) >>
                  ELSE progress_tracker
           /\ alerts' = check_alerts(updated, metrics_history, alerts)
    /\ snap_fresh' = FALSE
    /\ logged' = logged + 1
    /\ UNCHANGED << now, monitoring, thread, workers, metrics_history, appended,
                    snap, sessions, caller, ops, seqVars, asyncVars >>

\* a log_request call of the session
LogRequest ==
    /\ logged + sessions < MaxCalls
    /\ \E r \in RecordInputs : Record(r)

\* end_session
EndSession ==
    /\ metrics' = end_session_metrics(metrics, now)
    /\ progress_tracker' = IF progress_tracker # << >>
                           THEN << progress_finish(progress_tracker[1]) >>
                           ELSE progress_tracker
    /\ stop_monitoring
    /\ snap_fresh' = FALSE
    /\ UNCHANGED << now, alerts, metrics_history, appended, snap, logged, sessions,
                    caller, ops, seqVars, asyncVars >>

\* the caller takes self.metrics.to_dict() (get_current_stats hands it out)
ToDict ==
    /\ snap' = << to_dict(metrics, now) >>
    /\ snap_fresh' = TRUE
    /\ UNCHANGED << now, metrics, alerts, progress_tracker, monitoring, thread, workers,
                    metrics_history, appended, logged, sessions, caller, ops, seqVars, asyncVars >>

\* a second passes
Tick ==
    /\ now < MaxClock
    /\ now' = now + 1
    /\ UNCHANGED << metrics, alerts, progress_tracker, monitoring, thread, workers,
                    metrics_history, appended, snap, snap_fresh, logged, sessions,
                    caller, ops, seqVars, asyncVars >>

InitMonitor ==
    /\ urls = << >>
    /\ delay = 0
    /\ max_retries = 0
    /\ pc = "idle"
    /\ idx = 1
    /\ attempt = 0
    /\ status_code = 0
    /\ results = << >>
    /\ returned = << >>
    /\ stats = [ requests_made |-> 0, successful_requests |-> 0,
                 failed_requests |-> 0, total_delay_time |-> 0 ]
    /\ trace = << >>
    /\ delay_at_entry = 0
    /\ AsyncIdle
    /\ MonitorConstructed

NextMonitor == StartSession \/ LogRequest \/ EndSession \/ ToDict \/ Tick

SpecMonitor == InitMonitor /\ [][NextMonitor]_vars

----------------------------------------------------------------------------
(* Monitoring: the sampler's thread, PerformanceMonitor used on its own *)

\* perf_monitor.start_monitoring()
StartMonitoring ==
    /\ caller.pc = "idle"
    /\ Len(ops) < MaxOps
    /\ start_monitoring
    /\ ops' = Append(ops, "start")
    /\ UNCHANGED << now, metrics, alerts, progress_tracker, metrics_history, appended,
                    snap, snap_fresh, logged, sessions, caller, seqVars, asyncVars >>

\* perf_monitor.stop_monitoring(), up to the join: with a thread to join, the
\* caller waits for it, for JoinTimeout seconds at most
StopMonitoring ==
    /\ caller.pc = "idle"
    /\ Len(ops) < MaxOps
    /\ stop_monitoring
    /\ ops' = Append(ops, "stop")
    /\ caller' = IF thread # 0
                 THEN [ pc |-> "join", deadline |-> now + JoinTimeout ]
                 ELSE CallerIdle
    /\ UNCHANGED << now, metrics, alerts, progress_tracker, metrics_history, appended,
                    snap, snap_fresh, logged, sessions, seqVars, asyncVars >>

\* join(timeout=1) returns: the thread has ended, or the timeout has passed
StopReturn ==
    /\ caller.pc = "join"
    /\ workers[thread].pc = "exited" \/ now >= caller.deadline
    /\ caller' = CallerIdle
    /\ UNCHANGED << now, metrics, alerts, progress_tracker, monitoring, thread, workers,
                    metrics_history, appended, snap, snap_fresh, logged, sessions,
                    ops, seqVars, asyncVars >>

loop_test_Always(flag) == TRUE

\* while self.monitoring
loop_test(flag) == flag

\* Thread k tests the condition of the loop of _monitor_loop: it goes on to
\* build a sample, or ends when it finds the flag cleared.
WorkerLoop(k) ==
    /\ workers[k].pc = "loop"
    /\ IF loop_test(monitoring)
       THEN /\ Len(appended) < MaxAppends
            /\ workers' = [ workers EXCEPT ![k].pc = "capture" ]
       ELSE workers' = [ workers EXCEPT ![k].pc = "exited" ]
    /\ UNCHANGED << now, metrics, alerts, progress_tracker, monitoring, thread,
                    metrics_history, appended, snap, snap_fresh, logged, sessions,
                    caller, ops, seqVars, asyncVars >>

AfterRaiseExit(k, t) == [ pc |-> "exited", wake_at |-> t ]

\* where thread k goes once building its sample has raised: except Exception:
\* pass, then time.sleep(self.interval)
AfterRaise(k, t) == [ pc |-> "sleep", wake_at |-> t + Interval ]

\* The body of the loop in thread k, up to its sleep: the sample is built and
\* appended, unless building it raises.
WorkerCapture(k) ==
    /\ workers[k].pc = "capture"
    /\ \E raises \in PsutilRaises(now) :
         IF raises
         THEN /\ workers' = [ workers EXCEPT ![k] = AfterRaise(k, now) ]
              /\ UNCHANGED << metrics_history, appended >>
         ELSE /\ metrics_history' = DequeAppend(metrics_history, Sample(now))
              /\ appended' = Append(appended, Sample(now))
              /\ workers' = [ workers EXCEPT ![k] = [ pc |-> "sleep",
                                                      wake_at |-> now + Interval ] ]
    /\ UNCHANGED << now, metrics, alerts, progress_tracker, monitoring, thread,
                    snap, snap_fresh, logged, sessions, caller, ops, seqVars, asyncVars >>

\* time.sleep(self.interval) of thread k is over
WorkerWake(k) ==
    /\ workers[k].pc = "sleep"
    /\ now >= workers[k].wake_at
    /\ workers' = [ workers EXCEPT ![k].pc = "loop" ]
    /\ UNCHANGED << now, metrics, alerts, progress_tracker, monitoring, thread,
                    metrics_history, appended, snap, snap_fresh, logged, sessions,
                    caller, ops, seqVars, asyncVars >>

\* the times at which a sleep or the join's timeout ends
Timers ==
    { workers[k].wake_at : k \in { j \in DOMAIN workers : workers[j].pc = "sleep" } }
    \cup (IF caller.pc = "join" THEN { caller.deadline } ELSE { })

\* time passes up to the end of the earliest sleep or timeout
SleepElapses ==
    /\ Timers # { }
    /\ \A t \in Timers : now < t
    /\ \E t \in Timers :
         /\ \A u \in Timers : t <= u
         /\ now' = t
    /\ UNCHANGED << metrics, alerts, progress_tracker, monitoring, thread, workers,
                    metrics_history, appended, snap, snap_fresh, logged, sessions,
                    caller, ops, seqVars, asyncVars >>

NextSampler ==
    \/ StartMonitoring
    \/ \E k \in DOMAIN workers : WorkerLoop(k)
    \/ \E k \in DOMAIN workers : WorkerCapture(k)
    \/ \E k \in DOMAIN workers : WorkerWake(k)
    \/ SleepElapses

SpecSampler == InitMonitor /\ [][NextSampler]_vars

----------------------------------------------------------------------------
(* Monitoring: a caller that starts and stops the PerformanceMonitor *)

\* a pass of the loop in thread k, while fewer than MaxSamples were appended
ThreadLoop(k) ==
    /\ loop_test(monitoring) => Len(appended) < MaxSamples
    /\ WorkerLoop(k)

ThreadStep ==
    \/ \E k \in DOMAIN workers : ThreadLoop(k)
    \/ \E k \in DOMAIN workers : WorkerCapture(k)
    \/ \E k \in DOMAIN workers : WorkerWake(k)

NextThreads ==
    \/ StartMonitoring
    \/ StopMonitoring
    \/ StopReturn
    \/ ThreadStep
    \/ SleepElapses

SpecThreads == InitMonitor /\ [][NextThreads]_vars

\* the same threads under a caller that never stops the sampler
NextLoop ==
    \/ StartMonitoring
    \/ ThreadStep
    \/ SleepElapses

SpecLoopFair ==
    /\ InitMonitor
    /\ [][NextLoop]_vars
    /\ WF_vars(ThreadStep)
    /\ WF_vars(SleepElapses)

\* the threads are scheduled, join returns, the clock goes on
SpecThreadsFair ==
    /\ SpecThreads
    /\ WF_vars(ThreadStep)
    /\ WF_vars(StopReturn)
    /\ WF_vars(SleepElapses)

----------------------------------------------------------------------------
(* Monitoring: a long session, its records evaluated against the sampler's buffer *)

\* the outcomes recorded in the long session: a success and a failure, both
\* logged without a response time
AlertInputs ==
    { Request(UrlGood, TRUE, HttpOk, 0, "", 0),
      Request(UrlNotAUrl, FALSE, 0, 0, "", 0) }

\* start_session() without a URL count
AlertSession ==
    /\ sessions < MaxAlertSessions
    /\ Session(0)

\* a log_request call of the long session
AlertRecord ==
    /\ logged < MaxAlertRecords
    /\ \E r \in AlertInputs : Record(r)

NextAlerts ==
    \/ AlertSession
    \/ AlertRecord
    \/ ThreadStep
    \/ SleepElapses

SpecAlerts == InitMonitor /\ [][NextAlerts]_vars

----------------------------------------------------------------------------
(* Monitoring: the report written by end_session *)

TopDomains == 10
TopErrors == 5

\* dict(list(d.items())[:n]): the first n entries of d, in insertion order
TopN(d, n) == SubSeq(d, 1, IF Len(d) < n THEN Len(d) ELSE n)

\* _generate_final_report: the report built from the metrics m, the history h
\* and the alerts al at time t (session_name left out), as it is written out
final_report(m, h, al, t) ==
    [ metrics |-> to_dict(m, t),
      system_performance |-> perf_stats(h),
      alerts |-> al,
      top_domains |-> TopN(m.domain_stats, TopDomains),
      top_errors |-> TopN(m.errors_by_type, TopErrors) ]

\* the error texts of the reported session
ReportErrors == { "e1", "e2", "e3", "e4", "e5", "e6" }

\* the outcomes logged in the reported session: failures, each with its text
ReportInputs == { Request(UrlGood, FALSE, 0, 0, e, 0) : e \in ReportErrors }

\* a log_request call of the reported session
ReportRecord ==
    /\ logged < MaxReportRecords
    /\ \E r \in ReportInputs : Record(r)

NextReport ==
    \/ ReportRecord
    \/ EndSession

SpecReport == InitMonitor /\ [][NextReport]_vars

----------------------------------------------------------------------------
(* Reading the trace of one scrape_url call *)

ReqPos(tr) == { p \in 1..Len(tr) : tr[p].kind = "request" }
DelayPos(tr) == { p \in 1..Len(tr) : tr[p].kind = "delay" }
BackoffPos(tr) == { p \in 1..Len(tr) : tr[p].kind = "backoff" }

\* the 0-based index of the attempt whose request is at position p
AttemptIndex(tr, p) == Cardinality({ q \in ReqPos(tr) : q < p })

\* the texts of the failed attempts, in order
RECURSIVE ErrorTexts(_)
ErrorTexts(tr) ==
    IF tr = << >> THEN << >>
    ELSE IF tr[1].kind = "request" /\ tr[1].res # "ok"
         THEN << tr[1].res >> \o ErrorTexts(Tail(tr))
         ELSE ErrorTexts(Tail(tr))

\* the backoff sleeps, in order
RECURSIVE BackoffSecs(_)
BackoffSecs(tr) ==
    IF tr = << >> THEN << >>
    ELSE IF tr[1].kind = "backoff"
         THEN << tr[1].secs >> \o BackoffSecs(Tail(tr))
         ELSE BackoffSecs(Tail(tr))

\* scrape_url has returned for a URL that passed the gate
UrlFinished == pc \in { "loop", "done" } /\ trace # << >>

\* every attempt made so far for the current URL ended in a transient failure
\* (network error, timeout or a status that is not 2xx/3xx)
AllAttemptsTransient ==
    \A p \in ReqPos(trace) : trace[p].res \in RequestExceptionTexts

----------------------------------------------------------------------------
(* Claims on the sequential executor, checked under SpecSeq *)

\* C1: scrape_multiple_urls always completes and returns exactly one outcome
\* per input URL, in input order, whatever fails on the way: the results built
\* so far are the outcomes of urls[1..idx-1] in order, the returned list has the
\* length of the input with returned[i].url = urls[i], and until it has
\* returned the executor always has a next step.
C1_OneOutcomePerUrlInOrder ==
    /\ Len(results) = idx - 1
    /\ idx <= Len(urls) + 1
    /\ \A i \in 1..Len(results) : results[i].url = urls[i]
    /\ pc = "done" =>
         /\ Len(returned) = Len(urls)
         /\ \A i \in 1..Len(urls) : returned[i].url = urls[i]
    /\ pc # "done" => ENABLED NextSeq

\* a batch of two URLs has returned, the first having failed in the transport
\* and the second having been scraped after it
C1_Witness ==
    /\ pc = "done"
    /\ Len(returned) = 2
    /\ returned[1].error_message \in RequestExceptionTexts
    /\ returned[2].success

\* C4: with max_retries = N and a transport failing transiently on every
\* attempt, _make_request makes exactly N+1 requests for a valid URL, each after
\* one delay interval of delay..1.5*delay charged to total_delay_time (N+1
\* charges in all; intervals of length 0 when delay = 0), and only then is the
\* URL failed.
C4_ExhaustionAttemptsAndDelays ==
    AllAttemptsTransient =>
        /\ pc = "request" =>
             /\ Cardinality(ReqPos(trace)) = attempt
             /\ attempt <= max_retries
             /\ Len(results) = idx - 1
        /\ UrlFinished =>
             /\ Cardinality(ReqPos(trace)) = max_retries + 1
             /\ ~results[idx - 1].success
             /\ stats.failed_requests >= 1
        /\ Cardinality(DelayPos(trace)) =
               IF delay > 0 THEN Cardinality(ReqPos(trace)) ELSE 0
        /\ \A p \in DelayPos(trace) : p < Len(trace) /\ trace[p + 1].kind = "request"
        /\ stats.total_delay_time - delay_at_entry >= Cardinality(ReqPos(trace)) * delay
        /\ 2 * (stats.total_delay_time - delay_at_entry)
               <= 3 * Cardinality(ReqPos(trace)) * delay

\* a URL was failed after three transient failures with a positive delay
C4_Witness ==
    /\ UrlFinished
    /\ AllAttemptsTransient
    /\ max_retries = 2
    /\ delay > 0
    /\ Cardinality(DelayPos(trace)) = 3
    /\ stats.total_delay_time - delay_at_entry > 3 * delay

\* C5: a transient failure of attempt k with attempts remaining (k <
\* max_retries) is followed at once by a sleep of 2^k seconds, before attempt
\* k+1; the failure of attempt max_retries is followed by no sleep; there is no
\* other backoff sleep. A URL failing on every attempt sleeps 1, 2, ...,
\* 2^(max_retries-1).
C5_BackoffLadder ==
    /\ \A p \in ReqPos(trace) :
         LET k == AttemptIndex(trace, p)
         IN  IF trace[p].res \in RequestExceptionTexts /\ k < max_retries
             THEN /\ p < Len(trace)
                  /\ trace[p + 1] = Ev("backoff", Pow2(k), "")
                  /\ \A q \in ReqPos(trace) : q > p => q > p + 1
             ELSE p = Len(trace)
    /\ \A b \in BackoffPos(trace) : b > 1 /\ trace[b - 1].kind = "request"
    /\ (UrlFinished /\ AllAttemptsTransient) =>
         BackoffSecs(trace) = [ k \in 1..max_retries |-> Pow2(k - 1) ]

\* a URL was failed after the backoff sleeps 1 and 2
C5_Witness ==
    /\ UrlFinished
    /\ AllAttemptsTransient
    /\ BackoffSecs(trace) = << 1, 2 >>
    /\ trace[Len(trace)].kind = "request"

\* C6: when all max_retries+1 attempts of a URL fail, its outcome has success
\* = FALSE, status_code = 0 and, as error_message, the error text of the last
\* attempt, whatever the texts of the earlier attempts were.
C6_LastErrorOnly ==
    ( /\ UrlFinished
      /\ Len(ErrorTexts(trace)) = max_retries + 1 ) =>
        LET r == results[idx - 1]
            texts == ErrorTexts(trace)
        IN  /\ ~r.success
            /\ r.status_code = 0
            /\ r.error_message = texts[Len(texts)]

\* a URL was failed whose first attempt failed with another text than its last
C6_Witness ==
    /\ UrlFinished
    /\ Len(ErrorTexts(trace)) = max_retries + 1
    /\ max_retries >= 1
    /\ ErrorTexts(trace)[1] # ErrorTexts(trace)[max_retries + 1]
    /\ results[idx - 1].error_message = ErrorTexts(trace)[max_retries + 1]

\* C7: scrape_url on a URL lacking a scheme or a host returns at once the
\* failure outcome with error_message "Invalid URL" and status_code 0: no
\* request, no delay or backoff sleep, no retry, and the statistics (the
\* delay-time counter among them) unchanged.
C7_InvalidUrlGate ==
    [][ ( /\ pc = "loop"
          /\ idx <= Len(urls)
          /\ (UrlScheme(urls[idx]) = << >> \/ UrlNetloc(urls[idx]) = << >>) ) =>
        ( /\ results' = Append(results,
                 ScrapingResult(urls[idx], 0, FALSE, EmptyData, "Invalid URL"))
          /\ trace' = << >>
          /\ stats' = stats
          /\ pc' = "loop"
          /\ idx' = idx + 1 ) ]_vars

\* a URL with a scheme and no host was rejected after a URL that was charged
\* a delay
C7_Witness ==
    /\ Len(results) = 2
    /\ UrlScheme(urls[2]) # << >>
    /\ results[2].error_message = "Invalid URL"
    /\ trace = << >>
    /\ stats.total_delay_time > 0

\* C8: when the fetch succeeded and the extractor raises, scrape_url returns
\* the failure outcome a transport failure gets: success = FALSE, status_code
\* = 0, empty data, error_message = the exception's text, and the same fields.
C8_ExtractorFailureShape ==
    ( /\ UrlFinished
      /\ trace[Len(trace)] = Ev("request", 0, "ok") ) =>
        LET r == results[idx - 1]
        IN  \/ r.success /\ r.error_message = None
            \/ /\ r = ScrapingResult(urls[idx - 1], 0, FALSE, EmptyData, "extractor error")
               /\ DOMAIN r = DOMAIN FailureResult(urls[idx - 1], "ConnectTimeout")

\* the extractor raised on a page fetched with status 200
C8_Witness ==
    /\ UrlFinished
    /\ trace[Len(trace)] = Ev("request", 0, "ok")
    /\ status_code = HttpOk
    /\ results[idx - 1].error_message = "extractor error"
    /\ results[idx - 1].status_code = 0

----------------------------------------------------------------------------
(* Claims on the concurrent executor, checked under SpecAsync *)

\* C2: whatever the order in which the units finish, scrape_multiple_async
\* returns a list of the length of its input whose i-th outcome is the outcome
\* of the i-th URL.
C2_AsyncOrderPreserved ==
    /\ \A i \in DOMAIN slots : slots[i] # NoResult => slots[i].url = urls[i]
    /\ apc = "done" =>
         /\ Len(areturned) = Len(urls)
         /\ \A i \in 1..Len(urls) : areturned[i].url = urls[i]

\* two distinct URLs were returned in input order although the second one's
\* unit finished first
C2_Witness ==
    /\ apc = "done"
    /\ Len(urls) = 2
    /\ urls[1] # urls[2]
    /\ finished = << 2, 1 >>
    /\ areturned[1].url = urls[1]

\* C3: at most max_concurrent units are, at any time, between the permit's
\* acquisition and its release (in their delay or in their request).
C3_PermitBound == Cardinality(Holders) <= max_concurrent

\* every permit is out, one unit in its delay and one in its request, while a
\* further unit waits for a permit
C3_Witness ==
    /\ Cardinality(Holders) = max_concurrent
    /\ waiters # << >>
    /\ \E i \in Holders : unit[i] = "request"

\* C9: whatever is raised inside a unit becomes that unit's failure outcome
\* (success = FALSE, status_code = 0, the exception's text); the join still
\* returns every unit's outcome, and an outcome, once a unit has returned it,
\* is not changed or removed by anything another unit does.
C9_UnitFailureIsolated ==
    /\ [] ( /\ \A i \in DOMAIN unit :
                 (unit[i] = "done" /\ unit_error[i] # "") =>
                     /\ ~slots[i].success
                     /\ slots[i].status_code = 0
                     /\ slots[i].error_message = unit_error[i]
                     /\ slots[i].url = urls[i]
            /\ \A i \in DOMAIN unit :
                 (unit[i] = "done" /\ unit_error[i] = "") => slots[i].success
            /\ apc = "done" => areturned = slots
            /\ apc = "gather" => ENABLED NextAsync )
    /\ [][ \A i \in DOMAIN unit :
             unit[i] = "done" => (unit'[i] = "done" /\ slots'[i] = slots[i]) ]_vars

\* the first unit failed in its request, the second one succeeded after it, and
\* the join returned both outcomes
C9_Witness ==
    /\ apc = "done"
    /\ Len(urls) = 2
    /\ finished = << 1, 2 >>
    /\ unit_error[1] = "ConnectTimeout"
    /\ unit_error[2] = ""
    /\ areturned[2].success
    /\ ~areturned[1].success

\* C10: every URL gets exactly one session.get call, whether it succeeds or
\* fails: a unit is done after one request, it never sleeps but for its one
\* delay before the request, and there is no backoff sleep.
C10_SingleAttempt ==
    /\ \A i \in DOMAIN unit :
         /\ requests[i] = (IF unit[i] \in { "request", "done" } THEN 1 ELSE 0)
         /\ Len(sleeps[i]) = requests[i]
         /\ \A k \in 1..Len(sleeps[i]) : sleeps[i][k] = delay
    /\ apc = "done" => \A i \in 1..Len(urls) : requests[i] = 1

\* the join has returned a failed and a successful outcome, each after one
\* request
C10_Witness ==
    /\ apc = "done"
    /\ Len(urls) = 2
    /\ ~areturned[1].success
    /\ areturned[2].success
    /\ requests = << 1, 1 >>

\* C11: a unit whose response has a status outside 2xx/3xx ends with
\* success = FALSE: an outcome with success = TRUE carries a 2xx/3xx status
\* (stated for the units of well-formed URLs, which do get a response).
C11_AsyncNon2xxFails ==
    \A i \in DOMAIN unit :
        (validate_url(urls[i]) /\ unit[i] = "done" /\ slots[i].success) =>
            (slots[i].status_code >= 200 /\ slots[i].status_code < 400)

\* C12: a malformed URL (validate_url fails on it) handed to
\* scrape_multiple_async gets no delay and no session.get call, and its
\* outcome is a failure whose error text is "Invalid URL".
C12_AsyncInvalidUrlGate ==
    \A i \in DOMAIN unit :
        ~validate_url(urls[i]) =>
            /\ sleeps[i] = << >>
            /\ requests[i] = 0
            /\ unit[i] = "done" =>
                 /\ ~slots[i].success
                 /\ slots[i].error_message = "Invalid URL"

----------------------------------------------------------------------------
(* Claims on the Metrics Aggregator, checked under SpecMonitor *)

Completions == metrics.successful_requests + metrics.failed_requests

\* a step of log_request, of end_session: told by what they leave behind
RecordStep == logged' = logged + 1
FinalizeStep ==
    /\ monVars' # monVars
    /\ ~snap_fresh'
    /\ logged' = logged
    /\ sessions' = sessions
    /\ now' = now

\* what the holder of the last to_dict value reads in it
SnapView == to_dict_view(snap[1], metrics)

\* C13: after any log_request calls, average_response_time is
\* total_processing_time / (successes + failures), and 0.0 when nothing
\* completed, also when some calls carried no (or a zero) response_time.
C13_AverageIsMeanOverCompletions ==
    metrics.average_response_time =
        IF Completions = 0 THEN Zero
        ELSE Div(metrics.total_processing_time, Completions)

\* C14: in a session started with a known total_urls, successes + failures
\* never exceed total_urls.
C14_CompletionsWithinTotal ==
    metrics.total_urls > 0 => Completions <= metrics.total_urls

\* C15 as stated: the counts of the error histogram sum to the failure count.
C15_HistogramSumsToFailures ==
    DictSum(metrics.errors_by_type) = metrics.failed_requests

\* C15, amended: a log_request of a failed outcome with a non-empty error text
\* adds one to exactly the entry keyed by that text; a failed outcome without
\* error text, and a successful outcome, leave the error histogram as it was;
\* so the histogram has no entry for the empty text and its counts sum to at
\* most the failure count.
C15_HistogramCountsTextedFailures ==
    /\ [] ( /\ DictSum(metrics.errors_by_type) <= metrics.failed_requests
            /\ ~DictHas(metrics.errors_by_type, "") )
    /\ [][ \A r \in RecordInputs :
             (RecordStep /\ metrics' = log_request_metrics(metrics, r)) =>
                 metrics'.errors_by_type =
                     IF ~r.success /\ r.error # ""
                     THEN DictCount(metrics.errors_by_type, r.error)
                     ELSE metrics.errors_by_type ]_vars

\* two failures were recorded, one with an error text and one without: the
\* histogram counts one
C15_Witness ==
    /\ metrics.failed_requests = 2
    /\ metrics.errors_by_type = << [ key |-> "404 Client Error", val |-> 1 ] >>

\* C16 as stated: two to_dict values taken with no log_request in between
\* are equal, before finalize as well as after it.
C16_SnapshotsEqual ==
    [][ (snap # << >> /\ snap_fresh /\ snap_fresh') =>
            to_dict_view(snap'[1], metrics') = SnapView ]_vars

\* C16, amended: two to_dict values taken with no log_request, start_session
\* or end_session in between agree on every field but duration_seconds; once
\* end_time is set they agree on duration_seconds too, and before that each
\* carries the time elapsed since start_time when it was taken.
C16_SnapshotsEqualButDuration ==
    [][ (snap # << >> /\ snap_fresh /\ snap_fresh') =>
            LET first == SnapView
                second == to_dict_view(snap'[1], metrics')
            IN  /\ [ second EXCEPT !.duration_seconds = first.duration_seconds ] = first
                /\ metrics.end_time # << >> => second = first
                /\ (metrics.end_time = << >> /\ snap' # snap) =>
                       second.duration_seconds = now' - metrics.start_time ]_vars

\* a to_dict value was taken after finalize, later than end_time, and
\* nothing was recorded since
C16_Witness ==
    /\ snap # << >>
    /\ snap_fresh
    /\ snap[1].end_time # << >>
    /\ metrics.end_time # << >>
    /\ now > metrics.end_time[1]
    /\ Completions > 0

\* C17: the value to_dict returned, its three histograms included, is not
\* changed by a log_request made after it was taken.
C17_SnapshotImmutable ==
    [][ (snap # << >> /\ RecordStep) =>
            to_dict_view(snap'[1], metrics') = SnapView ]_vars

\* C18: requests_per_second is 0.0 while end_time is None, end_time stays None
\* until end_session, and end_session sets end_time to the time of the call
\* and requests_per_second to (successes + failures) / duration, 0.0 when the
\* duration is 0.
C18_FinalizeSetsEndAndRate ==
    /\ [] ( metrics.end_time = << >> => metrics.requests_per_second = Zero )
    /\ [][ (metrics.end_time = << >> /\ ~FinalizeStep) => metrics'.end_time = << >> ]_vars
    /\ [][ FinalizeStep =>
             /\ metrics'.end_time = << now >>
             /\ metrics'.requests_per_second =
                    IF now - metrics.start_time = 0 THEN Zero
                    ELSE Div(Completions, now - metrics.start_time) ]_vars

\* a session with completions was finalized after a positive duration
C18_Witness ==
    /\ metrics.end_time # << >>
    /\ metrics.end_time[1] > metrics.start_time
    /\ Completions > 0
    /\ metrics.requests_per_second # Zero

\* C19: success_rate is within [0, 100] in every state, and is 0 when nothing
\* completed.
C19_SuccessRateBounds ==
    LET rate == success_rate(metrics)
    IN  /\ 0 <= rate.num
        /\ rate.num <= 100 * rate.den
        /\ Completions = 0 => rate = Zero

\* one success and one failure: the rate is 50
C19_Witness ==
    /\ metrics.successful_requests = 1
    /\ metrics.failed_requests = 1
    /\ success_rate(metrics) = [ num |-> 50, den |-> 1 ]

----------------------------------------------------------------------------
(* Claims on the Performance Sampler, checked under SpecSampler *)

\* C20: metrics_history never holds more than HistoryCapacity samples, and it
\* holds the last HistoryCapacity samples appended, in the order of their
\* appends: after HistoryCapacity + K appends the K oldest are gone.
C20_RingBufferKeepsLast ==
    /\ Len(metrics_history) <= HistoryCapacity
    /\ metrics_history = LastN(appended, HistoryCapacity)

\* more than HistoryCapacity + 1 samples were appended: the history is full
\* and starts after the evicted ones
C20_Witness ==
    /\ Len(appended) > HistoryCapacity + 1
    /\ Len(metrics_history) = HistoryCapacity
    /\ metrics_history[1] = appended[Len(appended) - HistoryCapacity + 1]
    /\ metrics_history[1] # appended[1]

----------------------------------------------------------------------------
(* Claims on the sampler's start and stop, checked under SpecThreads(Fair) *)

AllExited == \A k \in DOMAIN workers : workers[k].pc = "exited"

\* C21: start_monitoring while the flag is set creates no thread and changes
\* nothing; stop_monitoring while the flag is clear (never started, or stopped
\* already) changes nothing of the monitor, joins only a thread that exists,
\* and returns: a second stop leaves what the first one left.
C21_StartStopIdempotent ==
    /\ [] ( caller.pc = "join" => thread \in DOMAIN workers )
    /\ [][ (monitoring /\ ops' = Append(ops, "start")) =>
               UNCHANGED << monitoring, thread, workers, metrics_history, caller >> ]_vars
    /\ [][ (~monitoring /\ ops' = Append(ops, "stop")) =>
               /\ UNCHANGED << monitoring, thread, workers, metrics_history >>
               /\ thread = 0 => caller' = CallerIdle ]_vars
    /\ [][ caller.pc = "join" =>
               UNCHANGED << monitoring, thread >> ]_vars

\* start was called twice and then stop: there is one thread
C21_Witness ==
    /\ ops = << "start", "start", "stop" >>
    /\ Len(workers) = 1
    /\ ~monitoring

\* C22: stop_monitoring returns, after the thread's end or after the join's
\* timeout; no thread is ended from outside (a thread ends only when it finds
\* the flag cleared at the loop's test); while the flag stays cleared a thread
\* appends at most the one sample it was building, and when no start follows
\* every thread ends.
C22_StopReturnsAndThreadEnds ==
    /\ (caller.pc = "join") ~> (caller.pc = "idle")
    /\ <>[](~monitoring) => <>[]AllExited
    /\ [][ \A k \in DOMAIN workers :
             (~monitoring /\ ~monitoring' /\ workers[k].pc # "capture") =>
                 workers'[k].pc # "capture" ]_vars
    /\ [][ appended' # appended =>
             \E k \in DOMAIN workers :
                 workers[k].pc = "capture" /\ workers'[k].pc = "sleep" ]_vars
    /\ [][ \A k \in DOMAIN workers :
             (workers[k].pc # "exited" /\ workers'[k].pc = "exited") =>
                 (workers[k].pc = "loop" /\ ~monitoring) ]_vars

\* stop has returned by its timeout, one second after the call, while the
\* thread, which has appended a sample, is still in its sleep
C22_Witness ==
    /\ ops = << "start", "stop" >>
    /\ caller.pc = "idle"
    /\ ~monitoring
    /\ appended # << >>
    /\ \E k \in DOMAIN workers : workers[k].pc = "sleep" /\ workers[k].wake_at > now

----------------------------------------------------------------------------
(* Claims on the sampler's loop, checked under SpecLoopFair *)

\* building the sample raised at time t: the thread sleeps and no sample
\* carries that time
RaisedAt(t) ==
    /\ now = t
    /\ \E k \in DOMAIN workers :
         workers[k].pc = "sleep" /\ workers[k].wake_at = t + Interval
    /\ \A i \in 1..Len(appended) : appended[i].timestamp # isoformat(t)

AppendedAfter(t) == \E i \in 1..Len(appended) : appended[i].timestamp[2] > t

\* C23: when building the sample raises, nothing is appended and nothing else
\* of the monitor changes, the thread goes to its sleep of one interval like
\* after a sample, and, the sampler not being stopped, a later pass appends a
\* sample.
C23_CaptureFailureSwallowed ==
    /\ [][ \A k \in DOMAIN workers :
             (workers[k].pc = "capture" /\ workers'[k] # workers[k]
                  /\ appended' = appended) =>
                 /\ workers'[k] = [ pc |-> "sleep", wake_at |-> now + Interval ]
                 /\ UNCHANGED << metrics_history, monitoring, thread, alerts, metrics >> ]_vars
    /\ \A t \in { 0, Interval } : RaisedAt(t) ~> AppendedAfter(t)

\* the first pass raised and the second one appended the first sample
C23_Witness ==
    /\ appended # << >>
    /\ appended[1] = Sample(Interval)
    /\ metrics_history = appended

----------------------------------------------------------------------------
(* Claims on the sampler's statistics, checked under SpecSampler *)

\* the sum of memory_percent over the samples lo..hi of all those appended
RECURSIVE MemoryFrom(_, _)
MemoryFrom(lo, hi) ==
    IF lo > hi THEN 0 ELSE appended[lo].memory_percent + MemoryFrom(lo + 1, hi)

\* C24: get_current_stats returns the empty dict while nothing was appended;
\* afterwards measurements_count is min(10, buffer length) and
\* avg_memory_percent is the mean, rounded to two decimals, of memory_percent
\* over exactly that many most recently appended samples.
C24_StatsOverLastTen ==
    LET held == Len(metrics_history)
        n == IF held < 10 THEN held ELSE 10
        stats_now == perf_stats(metrics_history)
    IN  IF appended = << >>
        THEN stats_now = << >>
        ELSE /\ stats_now # << >>
             /\ stats_now[1].measurements_count = n
             /\ stats_now[1].avg_memory_percent =
                    Div(Rounded(Div(MemoryFrom(Len(appended) - n + 1, Len(appended)), n), 2),
                        100)

\* twelve samples are held: the statistics are over the last ten, whose mean
\* is not the mean of all twelve
C24_Witness ==
    /\ Len(metrics_history) = 12
    /\ perf_stats(metrics_history) # << >>
    /\ perf_stats(metrics_history)[1].measurements_count = 10
    /\ 12 * MemoryFrom(3, 12) # 10 * MemoryFrom(1, 12)

----------------------------------------------------------------------------
(* Claims on the Alert Evaluator, checked under SpecAlerts and SpecMonitor *)

\* the alerts of the list al, as a set
AlertSet(al) == { al[i] : i \in 1..Len(al) }

\* the alerts a step has added
Added == AlertSet(alerts') \ AlertSet(alerts)

\* the error rate of the session in percent, with one decimal, as a count of
\* tenths
ErrorRateShown(m) ==
    Rounded(Div(100 * m.failed_requests, m.successful_requests + m.failed_requests), 1)

\* C25: a high-error-rate alert is added only by the evaluation that follows a
\* record, only when ten or more requests have completed by then, and only when
\* failures * 100 / completions is strictly greater than error_rate_threshold.
C25_ErrorRateRuleGuarded ==
    [][\A a \in Added :
          a.wording = "High error rate" =>
              /\ RecordStep
              /\ Completions' >= MinRequestsForErrorRate
              /\ 100 * metrics'.failed_requests > error_rate_threshold * Completions'
              /\ a.shown = ErrorRateShown(metrics')]_vars

\* ten completions with two failures (20 percent, the threshold) added no
\* alert; the eleventh, a failure, added one
C25_Witness ==
    /\ Completions = 11
    /\ metrics.failed_requests = 3
    /\ alerts = << Alert("High error rate", 273) >>

\* the messages of the rules breached by the metrics m and the history h
Breaches(m, h) ==
    (IF error_rate_breach(m) THEN { error_rate_alert(m) } ELSE { })
    \cup (IF slow_response_breach(m) THEN { slow_response_alert(m) } ELSE { })
    \cup (IF memory_breach(h) THEN { memory_alert(h) } ELSE { })

\* C26: no two entries of the alert list are equal; a record's evaluation leaves
\* every breached rule's message in the list, keeps the entries it found, and
\* appends exactly the breached messages that were not there: one entry per
\* distinct text, whichever rule it comes from.
C26_DedupByString ==
    [][/\ \A i, j \in 1..Len(alerts') : alerts'[i] = alerts'[j] => i = j
       /\ RecordStep =>
            /\ Breaches(metrics', metrics_history') \subseteq AlertSet(alerts')
            /\ SubSeq(alerts', 1, Len(alerts)) = alerts
            /\ Len(alerts') = Len(alerts)
                   + Cardinality(Breaches(metrics', metrics_history') \ AlertSet(alerts))]_vars

\* the memory rule breached with one text at every record since its alert, the
\* error-rate rule with 30.0 and then 27.3: one memory alert, two rate alerts
C26_Witness ==
    /\ alerts = << Alert("High memory usage", 900), Alert("High error rate", 300),
                   Alert("High error rate", 273) >>
    /\ Len(metrics_history) = 1
    /\ Completions = 11

\* C27: within a session the alert list only grows (every step that is not a
\* session start keeps the entries it found, in place), and a session start
\* that follows an earlier session leaves the list empty.
C27_AlertsEmptiedAtSessionStart ==
    [][IF sessions' = sessions + 1
       THEN sessions >= 1 => alerts' = << >>
       ELSE /\ Len(alerts') >= Len(alerts)
            /\ SubSeq(alerts', 1, Len(alerts)) = alerts]_vars

\* the sampler's avg_memory_percent over the samples appended so far (the last
\* ten of them at most), in hundredths of a percent
AvgMemoryShown ==
    LET n == IF Len(appended) < 10 THEN Len(appended) ELSE 10
    IN  Rounded(Div(MemoryFrom(Len(appended) - n + 1, Len(appended)), n), 2)

\* C28: a high-memory alert is added only by a record's evaluation made while
\* the sampler holds samples whose avg_memory_percent is strictly greater than
\* memory_threshold, never while the buffer is empty; and every record made
\* with such an average leaves the alert for it in the list.
C28_MemoryRule ==
    [][/\ \A a \in Added :
            a.wording = "High memory usage" =>
                /\ RecordStep
                /\ appended # << >>
                /\ AvgMemoryShown > 100 * memory_threshold
                /\ a.shown = Rounded(Div(AvgMemoryShown, 100), 1)
       /\ (RecordStep /\ appended # << >> /\ AvgMemoryShown > 100 * memory_threshold) =>
              Alert("High memory usage", Rounded(Div(AvgMemoryShown, 100), 1))
                  \in AlertSet(alerts')]_vars

\* the tenth record was evaluated before the second sample came (an average of
\* 90 would have alerted, so the buffer was empty) and added the rate alert
\* alone; a later record, at an average of 85, added the memory alert
C28_Witness ==
    /\ alerts = << Alert("High error rate", 300), Alert("High memory usage", 850) >>
    /\ Len(metrics_history) = 2
    /\ metrics_history[1].memory_percent = 90

\* C29: every log_request that returns with average_response_time greater than
\* response_time_threshold leaves in the alert list the slow-response message
\* formatted from that average, with any number of completions, under ten too.
C29_SlowRuleAfterEveryRecord ==
    [][(/\ RecordStep
        /\ metrics'.average_response_time.num
               > response_time_threshold * metrics'.average_response_time.den) =>
           Alert("Slow response times", Rounded(metrics'.average_response_time, 2))
               \in AlertSet(alerts')]_vars

\* the first record of a session, 12 s long, has put the alert in the list
C29_Witness ==
    /\ Completions = 1
    /\ sessions = 1
    /\ metrics.average_response_time = Div(12, 1)
    /\ alerts = << Alert("Slow response times", 1200) >>

----------------------------------------------------------------------------
(* Claims on the Progress Tracker, checked under SpecMonitor *)

\* C30: end_session's finish() leaves current_item equal to total_items,
\* whether fewer, as many or more updates than total_items came before, and
\* leaves completed_items, failed_items and total_items as they were.
C30_FinishForcesTotal ==
    [][(FinalizeStep /\ progress_tracker # << >>) =>
           /\ progress_tracker' # << >>
           /\ progress_tracker'[1].current_item = progress_tracker[1].total_items
           /\ progress_tracker'[1].total_items = progress_tracker[1].total_items
           /\ progress_tracker'[1].completed_items = progress_tracker[1].completed_items
           /\ progress_tracker'[1].failed_items = progress_tracker[1].failed_items]_vars

\* a session of one URL that logged two requests and was then ended: the
\* counter is back at 1, both items are still listed
C30_Witness ==
    /\ progress_tracker # << >>
    /\ metrics.end_time # << >>
    /\ progress_tracker[1].total_items = 1
    /\ progress_tracker[1].current_item = 1
    /\ Len(progress_tracker[1].completed_items) + Len(progress_tracker[1].failed_items) = 2

----------------------------------------------------------------------------
(* Claims on the session report, checked under SpecReport *)

\* the report end_session writes in the step
ReportWritten == final_report(metrics', metrics_history', alerts', now')

\* the entries top are n of the highest counts of the histogram hist: they
\* are entries of hist, as many as hist has up to n, and none of them has a
\* lower count than an entry left out
HighestOf(top, hist, n) ==
    LET T == { top[i] : i \in 1..Len(top) }
        H == { hist[i] : i \in 1..Len(hist) }
    IN  /\ T \subseteq H
        /\ Cardinality(T) = Len(top)
        /\ Len(top) = (IF Len(hist) < n THEN Len(hist) ELSE n)
        /\ \A x \in T : \A y \in H \ T : x.val >= y.val

\* C31: the report end_session writes has as top_domains the 10 entries of the
\* domain histogram with the highest counts, and as top_errors the 5 entries
\* of the error histogram with the highest counts, each with its count.
C31_ReportTopByCount ==
    [][FinalizeStep =>
           /\ HighestOf(ReportWritten.top_domains, metrics'.domain_stats, TopDomains)
           /\ HighestOf(ReportWritten.top_errors, metrics'.errors_by_type, TopErrors)]_vars

----------------------------------------------------------------------------
(* Claims on the sequential executor, checked under SpecScenario and SpecSeq *)

\* C32: with delay = 0 and max_retries = 0, a batch of five reachable URLs and
\* "not-a-url" returns six outcomes in the input's order: one failure, at the
\* malformed URL's place, with the text "Invalid URL", and five successes; the
\* malformed URL's call sleeps and requests nothing and adds nothing to
\* total_delay_time, which the five valid URLs leave at 0.
C32_ScenarioOneInvalid ==
    /\ (pc = "loop" /\ idx > 1 /\ urls[idx - 1] = UrlNotAUrl) =>
           /\ trace = << >>
           /\ stats.total_delay_time = delay_at_entry
    /\ pc = "done" =>
           /\ Len(returned) = ScenarioGood + 1
           /\ \A i \in 1..Len(returned) :
                /\ returned[i].url = urls[i]
                /\ IF urls[i] = UrlNotAUrl
                   THEN ~returned[i].success /\ returned[i].error_message = "Invalid URL"
                   ELSE returned[i].success /\ returned[i].error_message = None
           /\ Cardinality({ i \in 1..Len(returned) : ~returned[i].success }) = 1
           /\ Cardinality({ i \in 1..Len(returned) : returned[i].success }) = ScenarioGood
           /\ stats.total_delay_time = 0
           /\ stats.successful_requests = ScenarioGood

\* the batch with the malformed URL in the middle has been returned
C32_Witness ==
    /\ pc = "done"
    /\ Len(urls) = ScenarioGood + 1
    /\ urls[3] = UrlNotAUrl
    /\ ~returned[3].success
    /\ returned[4].success

----------------------------------------------------------------------------
(* Claims on the sessions of a ScrapingMonitor, checked under SpecMonitor *)

\* C33: every start_session call, with or without a URL count, leaves metrics
\* whose counters are 0 and whose histograms are empty, and a progress state
\* that holds nothing of the session before: no tracker, or a tracker with
\* current_item 0 and both lists empty.
C33_SessionStartsClean ==
    [][sessions' = sessions + 1 =>
           /\ metrics'.successful_requests = 0
           /\ metrics'.failed_requests = 0
           /\ metrics'.total_bytes_downloaded = 0
           /\ metrics'.total_processing_time = 0
           /\ metrics'.average_response_time = Zero
           /\ metrics'.errors_by_type = << >>
           /\ metrics'.status_codes = << >>
           /\ metrics'.domain_stats = << >>
           /\ progress_tracker' # << >> =>
                  /\ progress_tracker'[1].current_item = 0
                  /\ progress_tracker'[1].completed_items = << >>
                  /\ progress_tracker'[1].failed_items = << >>]_vars

----------------------------------------------------------------------------
(* Claims on the concurrent executor's units, checked under SpecAsync *)

\* the units that have slept or asked and have not returned yet
InFlight == { i \in DOMAIN unit : unit[i] # "done" /\ (sleeps[i] # << >> \/ requests[i] > 0) }

\* C34: a unit sleeps once, for exactly `delay` seconds, after it has taken a
\* permit and before its one request, and returns (releasing the permit) only
\* after that request: a unit that has not got a permit yet has neither slept
\* nor asked, a unit that has asked has slept `delay` before, and the units
\* that sleep or ask are never more than the permits handed out.
C34_AcquireDelayRequestRelease ==
    apc # "idle" =>
        /\ \A i \in DOMAIN unit :
             /\ unit[i] \in { "created", "waiting" } => sleeps[i] = << >> /\ requests[i] = 0
             /\ unit[i] = "delay" => sleeps[i] = << >> /\ requests[i] = 0
             /\ unit[i] \in { "request", "done" } => sleeps[i] = << delay >> /\ requests[i] = 1
        /\ Cardinality({ i \in DOMAIN unit : unit[i] \in { "delay", "request" } })
               = max_concurrent - sem
        /\ Cardinality(InFlight) <= max_concurrent - sem

\* with one permit and a delay of 2 s, the first unit has slept 2 s and is
\* asking while the second waits for the permit and has not slept
C34_Witness ==
    /\ apc = "gather"
    /\ max_concurrent = 1
    /\ delay = 2
    /\ Len(unit) = 2
    /\ unit[1] = "request" /\ sleeps[1] = << 2 >>
    /\ unit[2] = "waiting" /\ sleeps[2] = << >>

----------------------------------------------------------------------------
(* Claims on the retry ladder, checked under SpecSeq *)

\* the step is a pass of _make_request whose request raised a text of S
AttemptRaised(S) ==
    /\ pc = "request"
    /\ \E p \in (Len(trace) + 1)..Len(trace') :
         trace'[p].kind = "request" /\ trace'[p].res \in S

\* the step ends in the backoff sleep of the current attempt and goes on to the
\* next attempt, with no outcome for the URL yet
Retried ==
    /\ pc' = "request"
    /\ attempt' = attempt + 1
    /\ trace'[Len(trace')] = Ev("backoff", Pow2(attempt), "")
    /\ results' = results
    /\ idx' = idx

\* C35: whatever the type of the exception a request raises, while attempts
\* remain the attempt is followed by its backoff sleep and a further attempt.
C35_AnyExceptionRetried ==
    [][(AttemptRaised(RequestExceptionTexts \cup OtherExceptionTexts)
        /\ attempt < max_retries) => Retried]_vars


\* the current URL's trace ends in a request that succeeded
FetchedAtLast == trace # << >> /\ trace[Len(trace)] = Ev("request", 0, "ok")

\* the ladder up to the first success: nothing follows the request that
\* succeeded; it is attempt k, k being the failed attempts before it, after
\* the backoff sleeps 1, 2, ..., 2^(k-1), one after each failed attempt
LadderStopsAtSuccess ==
    /\ \A p \in ReqPos(trace) : trace[p].res = "ok" => p = Len(trace)
    /\ FetchedAtLast =>
         LET k == Len(ErrorTexts(trace))
         IN  /\ Cardinality(ReqPos(trace)) = k + 1
             /\ k <= max_retries
             /\ BackoffSecs(trace) = [ j \in 1..k |-> Pow2(j - 1) ]
             /\ \A b \in BackoffPos(trace) :
                  trace[b - 1].kind = "request" /\ trace[b - 1].res # "ok"

\* C36: the ladder stops at the first successful attempt (k+1 attempts, k
\* backoff sleeps 1, 2, ..., 2^(k-1), nothing after), and the URL's outcome is
\* then a success without error text.
C36_StopsAtFirstSuccess ==
    /\ LadderStopsAtSuccess
    /\ (UrlFinished /\ FetchedAtLast) =>
         /\ results[idx - 1].success
         /\ results[idx - 1].error_message = None

\* C36, amended: the ladder stops at the first successful attempt (k+1
\* attempts, k backoff sleeps 1, 2, ..., 2^(k-1), nothing after); the URL's
\* outcome is then a success without error text, unless the extractor raises
\* on the fetched page: then it is a failure with the extractor's text. In
\* neither case does it carry the text of a failed attempt.
C36_StopsAtFirstSuccessfulFetch ==
    /\ LadderStopsAtSuccess
    /\ (UrlFinished /\ FetchedAtLast) =>
         LET r == results[idx - 1]
         IN  /\ \/ r.success /\ r.error_message = None /\ r.status_code = status_code
                \/ ~r.success /\ r.error_message = "extractor error"
             /\ \A j \in 1..Len(ErrorTexts(trace)) : r.error_message # ErrorTexts(trace)[j]

\* a URL succeeded at its third attempt, after the backoff sleeps 1 and 2
C36_Witness ==
    /\ UrlFinished
    /\ FetchedAtLast
    /\ Len(ErrorTexts(trace)) = 2
    /\ BackoffSecs(trace) = << 1, 2 >>
    /\ results[idx - 1].success


----------------------------------------------------------------------------
(* Claims on the sequential executor's statistics, checked under SpecSeq *)

\* C37: when a batch has returned, stats.successful_requests is the number of
\* returned outcomes with success = TRUE and stats.failed_requests the number
\* of those with success = FALSE, the outcomes of malformed URLs and of
\* extractor failures included.
C37_StatsAgreeWithOutcomes ==
    pc = "done" =>
        /\ stats.successful_requests
               = Cardinality({ i \in 1..Len(returned) : returned[i].success })
        /\ stats.failed_requests
               = Cardinality({ i \in 1..Len(returned) : ~returned[i].success })

\* C38: stats.requests_made equals stats.successful_requests in every state,
\* whatever failed, so that the success_rate of get_stats is 0 while no request
\* has succeeded and 100 from then on.
C38_RequestsMadeCountsSuccessesOnly ==
    /\ stats.requests_made = stats.successful_requests
    /\ stats_success_rate(stats) =
           (IF stats.successful_requests = 0 THEN Zero ELSE Div(100, 1))

\* a batch has returned one exhausted URL and one fetched URL: the rate is 100
C38_Witness ==
    /\ pc = "done"
    /\ Len(returned) = 2
    /\ stats.failed_requests = 1
    /\ stats.successful_requests = 1
    /\ stats_success_rate(stats) = Div(100, 1)


----------------------------------------------------------------------------
(* Claims on the sampler's threads, checked under SpecThreads *)

\* the threads inside the body of _monitor_loop: past a test of the flag
\* that let them in, appending a sample or sleeping until the next one
Sampling == { k \in DOMAIN workers : workers[k].pc \in { "capture", "sleep" } }

\* C39: whatever start_monitoring and stop_monitoring calls were made, also a
\* stop that returned on its join timeout while the thread slept and a start
\* right after it, at most one thread is alive in _monitor_loop and appending.
C39_AtMostOneWorkerAppending == Cardinality(Sampling) <= 1


----------------------------------------------------------------------------
(* Claims on the permit pool, checked under SpecPool *)

\* C40: the permits left and the permits held add up to max_concurrent in
\* every state; while the batch is under way some unit can always take a step
\* (every request ends, so no unit is stuck for ever); and when the batch has
\* returned every URL has had its request and all permits are back.
C40_PermitsConservedNoDeadlock ==
    /\ sem + Cardinality(Holders) = max_concurrent
    /\ apc = "gather" => ENABLED NextAsync
    /\ apc = "done" =>
         /\ sem = max_concurrent
         /\ \A i \in DOMAIN unit : unit[i] = "done" /\ requests[i] = 1

====
